---------------------------- MODULE Spec2Model ----------------------------
(***************************************************************************)
(* Model of detect_use_of_vendored_requests.py: the __main__ driver that   *)
(* lists the Lambda functions of an account, downloads and unpacks the     *)
(* deployment package of each python one, walks its .py files and reports  *)
(* those that contain a vendored botocore import.                          *)
(*                                                                         *)
(* Byte strings and paths are sequences of one-character strings, so that  *)
(* `in`, startswith, endswith, line splitting and sorted() are computed on *)
(* characters as the Python code computes them.                            *)
(***************************************************************************)
EXTENDS Integers, Sequences, FiniteSets, TLC

(* ------------------------------ bounds -------------------------------- *)

\* Largest number of functions the account's listing holds.
MaxFunctions == 3

\* Largest page size the paginator uses.
MaxPageSize == 2

(* ------------------------- characters, strings ------------------------ *)

LF == "\n"

\* The characters of the paths of the model, in code point order.
CodePointOrder ==
    <<".", "/", "0", "1", "2", "3", "4", "5", "6", "7", "8", "9",
      "A", "D", "E", "M", "R", "_",
      "a", "b", "c", "d", "e", "f", "g", "h", "i", "j", "k", "l", "m",
      "n", "o", "p", "q", "r", "s", "t", "u", "v", "w", "x", "y", "z">>

Ord(c) == CHOOSE i \in 1..Len(CodePointOrder) : CodePointOrder[i] = c

\* Python's a < b on str: code point order, a proper prefix is smaller.
StrLess(a, b) ==
    \E i \in 1..(Len(a) + 1) :
        /\ i <= Len(b)
        /\ \A j \in 1..(i - 1) : a[j] = b[j]
        /\ \/ i = Len(a) + 1
           \/ Ord(a[i]) < Ord(b[i])

\* Python's s.startswith(p).
StartsWith(s, p) ==
    /\ Len(p) <= Len(s)
    /\ SubSeq(s, 1, Len(p)) = p

\* Python's s.endswith(p).
EndsWith(s, p) ==
    /\ Len(p) <= Len(s)
    /\ SubSeq(s, Len(s) - Len(p) + 1, Len(s)) = p

\* Python's p in s, on str and on bytes.
Contains(s, p) ==
    \E i \in 0..(Len(s) - Len(p)) : SubSeq(s, i + 1, i + Len(p)) = p

(* ------------------------- literals of the code ----------------------- *)

\* b"import botocore.vendored"
PatImport ==
    <<"i", "m", "p", "o", "r", "t", " ", "b", "o", "t", "o", "c", "o", "r", "e", ".", "v", "e", "n", "d", "o", "r", "e", "d">>

\* b"from botocore.vendored import " (with the trailing space)
PatFromImport ==
    <<"f", "r", "o", "m", " ", "b", "o", "t", "o", "c", "o", "r", "e", ".", "v", "e", "n", "d", "o", "r", "e", "d", " ", "i", "m", "p", "o", "r", "t", " ">>

\* "python"
PyToken ==
    <<"p", "y", "t", "h", "o", "n">>

\* ".py"
DotPy ==
    <<".", "p", "y">>

\* "boto3/"
Boto3Prefix ==
    <<"b", "o", "t", "o", "3", "/">>

\* "botocore/"
BotocorePrefix ==
    <<"b", "o", "t", "o", "c", "o", "r", "e", "/">>

(* ------------------------------ paths --------------------------------- *)

\* os.path.join(a, b) for a relative b and an a that does not end in "/".
Join(a, b) == a \o <<"/">> \o b

\* The position of the last "/" of p, 0 when it has none.
LastSlash(p) ==
    IF \E i \in 1..Len(p) : p[i] = "/"
    THEN CHOOSE i \in 1..Len(p) :
            /\ p[i] = "/"
            /\ \A j \in (i + 1)..Len(p) : p[j] # "/"
    ELSE 0

DirName(p) == SubSeq(p, 1, LastSlash(p) - 1)

BaseName(p) == SubSeq(p, LastSlash(p) + 1, Len(p))

\* os.path.relpath(path, start) for a path below start, which is what
\* __main__ calls it on (python_path is join(dirpath, f) for a dirpath
\* that os.walk(start) gave): what follows start and its "/".
RelPath(path, start) == SubSeq(path, Len(start) + 2, Len(path))

(* ---------------------- the account being scanned --------------------- *)

RtPython38 ==
    <<"p", "y", "t", "h", "o", "n", "3", ".", "8">>

RtPython27 ==
    <<"p", "y", "t", "h", "o", "n", "2", ".", "7">>

RtNode ==
    <<"n", "o", "d", "e", "j", "s", "1", "2", ".", "x">>

LineFromRequests ==
    <<"f", "r", "o", "m", " ", "b", "o", "t", "o", "c", "o", "r", "e", ".", "v", "e", "n", "d", "o", "r", "e", "d", " ", "i", "m", "p", "o", "r", "t", " ", "r", "e", "q", "u", "e", "s", "t", "s", LF>>

LineImport ==
    <<"i", "m", "p", "o", "r", "t", " ", "b", "o", "t", "o", "c", "o", "r", "e", ".", "v", "e", "n", "d", "o", "r", "e", "d", LF>>

LineOs ==
    <<"i", "m", "p", "o", "r", "t", " ", "o", "s", LF>>

LineJson ==
    <<"i", "m", "p", "o", "r", "t", " ", "j", "s", "o", "n", LF>>

LineNoSpace ==
    <<"f", "r", "o", "m", " ", "b", "o", "t", "o", "c", "o", "r", "e", ".", "v", "e", "n", "d", "o", "r", "e", "d", " ", "i", "m", "p", "o", "r", "t", LF>>

LineBotocore ==
    <<"i", "m", "p", "o", "r", "t", " ", "b", "o", "t", "o", "c", "o", "r", "e", LF>>

LineAssign ==
    <<"x", " ", "=", " ", "1", LF>>

\* File contents (bytes).
SrcClean == LineOs \o LineBotocore

\* The vendored import is line 3 of 4.
SrcHandler == LineOs \o LineJson \o LineFromRequests \o LineAssign

\* The vendored import is the last line, which has no line terminator.
SrcImportLast == LineOs \o PatImport

\* `from botocore.vendored import` followed by a line end, not by a space.
SrcNearMiss == LineNoSpace \o LineBotocore

\* The vendored import is the first line.
SrcFirst == LineImport \o LineOs

P_app ==
    <<"a", "p", "p", ".", "p", "y">>

P_handler ==
    <<"h", "a", "n", "d", "l", "e", "r", ".", "p", "y">>

P_helper ==
    <<"b", "o", "t", "o", "3", "/", "v", "e", "n", "d", "o", "r", "e", "d", "_", "h", "e", "l", "p", "e", "r", ".", "p", "y">>

P_session ==
    <<"b", "o", "t", "o", "c", "o", "r", "e", "/", "s", "e", "s", "s", "i", "o", "n", ".", "p", "y">>

P_boto3py ==
    <<"b", "o", "t", "o", "3", ".", "p", "y">>

P_util ==
    <<"l", "i", "b", "/", "u", "t", "i", "l", ".", "p", "y">>

P_readme ==
    <<"l", "i", "b", "/", "R", "E", "A", "D", "M", "E", ".", "m", "d">>

P_z ==
    <<"z", ".", "p", "y">>

P_deep ==
    <<"l", "i", "b", "/", "a", "/", "b", ".", "p", "y">>

P_index ==
    <<"i", "n", "d", "e", "x", ".", "j", "s">>

P_tool ==
    <<"t", "o", "o", "l", ".", "p", "y">>

\* Deployment packages: relative path of each archive member |-> its bytes.
PkgApp == (P_app :> SrcClean) @@ (P_handler :> SrcHandler)

PkgNode == (P_index :> SrcClean) @@ (P_tool :> SrcFirst)

PkgSdk == (P_helper :> SrcHandler) @@ (P_session :> SrcFirst)

PkgMixed ==
    (P_z :> SrcImportLast) @@ (P_util :> SrcHandler) @@ (P_readme :> SrcFirst)
        @@ (P_boto3py :> SrcFirst) @@ (P_deep :> SrcNearMiss)

ZIP == "application/zip"

\* headers.get("Content-Type") of a response that has no such header.
None == "None"

\* The functions an account may hold: the descriptor list_functions gives
\* (FunctionName, Runtime) and what get_function and the download of
\* Code.Location answer for it (net: whether both calls succeed;
\* ContentType: the header of the download; archive: whether the file
\* unpacks; package: its members).
Catalog ==
    { [FunctionName |-> "app", Runtime |-> RtPython38, net |-> "ok",
       ContentType |-> ZIP, archive |-> "ok", package |-> PkgApp],
      [FunctionName |-> "node", Runtime |-> RtNode, net |-> "ok",
       ContentType |-> ZIP, archive |-> "ok", package |-> PkgNode],
      [FunctionName |-> "sdk", Runtime |-> RtPython38, net |-> "ok",
       ContentType |-> ZIP, archive |-> "ok", package |-> PkgSdk],
      [FunctionName |-> "mixed", Runtime |-> RtPython27, net |-> "ok",
       ContentType |-> ZIP, archive |-> "ok", package |-> PkgMixed],
      [FunctionName |-> "tarball", Runtime |-> RtPython38, net |-> "ok",
       ContentType |-> "application/x-tar", archive |-> "ok", package |-> PkgApp],
      [FunctionName |-> "noheader", Runtime |-> RtPython27, net |-> "ok",
       ContentType |-> None, archive |-> "ok", package |-> PkgApp],
      [FunctionName |-> "offline", Runtime |-> RtPython38, net |-> "error",
       ContentType |-> ZIP, archive |-> "ok", package |-> PkgApp],
      [FunctionName |-> "corrupt", Runtime |-> RtPython38, net |-> "ok",
       ContentType |-> ZIP, archive |-> "corrupt", package |-> PkgApp] }

Names == { f.FunctionName : f \in Catalog }

Describe(name) == CHOOSE f \in Catalog : f.FunctionName = name

(* ------------------------------ state --------------------------------- *)

VARIABLES
    pages,          \* what paginator.paginate() returns: the pages of descriptors
    pc,             \* where the script is: loop, fetch, walk, classify, done, aborted
    page, pos,      \* get_all_functions: the page and the place in it to yield next
    lambda_function,\* the descriptor the for loop of __main__ holds (blank before the first)
    source_code_dir,\* the directory get_lambda_source_code returned
    walkDir,        \* os.walk: the top it was called on, then the dirpath being listed
    walkFiles,      \* os.walk: the filenames of walkDir not yet looked at
    walkStack,      \* os.walk: the directories still to visit, one set per level
    python_path,    \* the path contains_vendored_imports was called on
    python_src,     \* the bytes of it not yet read
    linesRead,      \* how many lines of it the for loop has read
    paths_with_vendored_imports,
    output,         \* the lines printed on stdout
    files,          \* the file system: absolute path |-> bytes
    dirs,           \* the directories of the file system
    fetchLog,       \* the names get_lambda_source_code was called with, in order
    scratch,        \* the directories mkdtemp made and the function each was for
    walked,         \* the paths find_python_paths has yielded
    classified,     \* the calls of contains_vendored_imports that returned
    error           \* the exception that ended the run, None when there is none

vars ==
    <<pages, pc, page, pos, lambda_function, source_code_dir, walkDir, walkFiles,
      walkStack, python_path, python_src, linesRead, paths_with_vendored_imports,
      output, files, dirs, fetchLog, scratch, walked, classified, error>>

(* ----------------------------- the listing ---------------------------- *)

\* The sequences without repetition of at most n elements of S.
RECURSIVE Arrangements(_, _)
Arrangements(S, n) ==
    IF n = 0 THEN { <<>> }
    ELSE LET shorter == Arrangements(S, n - 1)
         IN  shorter \cup
             { Append(s, x) : <<s, x>> \in
                 { sx \in shorter \X S :
                     \A i \in 1..Len(sx[1]) : sx[1][i] # sx[2] } }

\* A function as list_functions describes it.
Descriptor(name) ==
    [FunctionName |-> name, Runtime |-> Describe(name).Runtime]

\* The listing in pages of at most size descriptors; one empty page when
\* the account has no function.
Paginate(listing, size) ==
    IF listing = <<>> THEN << <<>> >>
    ELSE [p \in 1..((Len(listing) + size - 1) \div size) |->
            SubSeq(listing, (p - 1) * size + 1,
                   IF p * size < Len(listing) THEN p * size ELSE Len(listing))]

\* get_all_functions: the place of the next descriptor to yield from
\* <<p, i>> on, past the pages that are used up; a page beyond the last
\* one when the generator is exhausted.
RECURSIVE Seek(_, _)
Seek(p, i) ==
    IF p > Len(pages) THEN <<p, 1>>
    ELSE IF i > Len(pages[p]) THEN Seek(p + 1, 1)
    ELSE <<p, i>>

\* As get_all_functions would be if it read the first page only.
FirstPageOnly(p, i) ==
    IF p = 1 /\ i <= Len(pages[1]) THEN <<1, i>> ELSE <<Len(pages) + 1, 1>>

get_all_functions(p, i) == Seek(p, i)

(* ------------------------- pieces of the code ------------------------- *)

\* As the runtime test would be if it let every runtime through.
AnyRuntime(runtime) == TRUE

\* "python" in lambda_function["Runtime"]
IsPythonRuntime(runtime) == Contains(runtime, PyToken)

\* As the Content-Type test would be if it took any header that is present.
AnyContentType(content_type) == content_type # None

\* headers.get("Content-Type") == "application/zip"
IsZip(content_type) == content_type = ZIP

\* The directory names mkdtemp makes: "/tmp/tmp" and a fresh tail.
TmpRoot ==
    <<"/", "t", "m", "p", "/", "t", "m", "p">>

DigitChars == <<"1", "2", "3", "4", "5", "6", "7", "8", "9">>

TmpName(n) == TmpRoot \o <<DigitChars[n]>>

\* As the scratch directory would be if it were one fixed directory.
FixedDir(existing) == TmpName(1)

\* tempfile.mkdtemp(): a directory that does not exist yet.
MkdTemp(existing) ==
    TmpName(CHOOSE n \in 1..Len(DigitChars) :
                /\ TmpName(n) \notin existing
                /\ \A m \in 1..(n - 1) : TmpName(m) \in existing)

\* The directories strictly between root and the file path p.
ParentDirs(p, root) ==
    { SubSeq(p, 1, i - 1) : i \in { k \in (Len(root) + 2)..Len(p) : p[k] = "/" } }

\* shutil.unpack_archive: the members of package, written under extract_dir.
UnpackedFiles(package, extract_dir) ==
    [ p \in { Join(extract_dir, rel) : rel \in DOMAIN package } |->
        package[RelPath(p, extract_dir)] ]

UnpackedDirs(package, extract_dir) ==
    UNION { ParentDirs(Join(extract_dir, rel), extract_dir) : rel \in DOMAIN package }

\* As the exclusion would be if it knew the botocore/ prefix only.
BotocoreOnly(relpath) == StartsWith(relpath, BotocorePrefix)

\* relpath.startswith(("boto3/", "botocore/"))
IsExcluded(relpath) ==
    \/ StartsWith(relpath, Boto3Prefix)
    \/ StartsWith(relpath, BotocorePrefix)

\* As the condition would be without the trailing space of the second
\* literal.
NoTrailingSpace(line) ==
    \/ Contains(line, PatImport)
    \/ Contains(line, SubSeq(PatFromImport, 1, Len(PatFromImport) - 1))

\* The condition of the if in contains_vendored_imports.
IsVendoredImportLine(line) ==
    \/ Contains(line, PatImport)
    \/ Contains(line, PatFromImport)

\* What iterating a binary file gives next: the bytes up to and including
\* the first line feed, or all of them when there is none.
NextLine(bytes) ==
    IF \E i \in 1..Len(bytes) : bytes[i] = LF
    THEN SubSeq(bytes, 1,
                CHOOSE i \in 1..Len(bytes) :
                    /\ bytes[i] = LF
                    /\ \A j \in 1..(i - 1) : bytes[j] # LF)
    ELSE bytes

\* sorted(paths): the elements in ascending order, equal ones in the
\* order they had (the sort is stable). Rank(paths, i) is the place of
\* paths[i] in the result.
Rank(paths, i) ==
    Cardinality({ j \in 1..Len(paths) :
                    \/ StrLess(paths[j], paths[i])
                    \/ (paths[j] = paths[i] /\ j <= i) })

\* As the findings would be printed without sorted().
Unsorted(paths) == paths

sorted(paths) ==
    [k \in 1..Len(paths) |-> paths[CHOOSE i \in 1..Len(paths) : Rank(paths, i) = k]]

Banner(kind, function_name) == [kind |-> kind, name |-> function_name, path |-> <<>>]

Item(path) == [kind |-> "item", name |-> "", path |-> path]

\* As the report would be if the loop over the findings skipped the first.
SkipFirstFinding(function_name, paths) ==
    IF paths # <<>>
    THEN <<Banner("FAIL", function_name)>>
            \o [i \in 1..(Len(paths) - 1) |-> Item(sorted(paths)[i + 1])]
    ELSE <<Banner("OK", function_name)>>

\* The lines the end of the loop body prints for one function.
ReportLines(function_name, paths) ==
    IF paths # <<>>
    THEN <<Banner("FAIL", function_name)>>
            \o [i \in 1..Len(paths) |-> Item(sorted(paths)[i])]
    ELSE <<Banner("OK", function_name)>>

\* As an exception would be handled if __main__ caught it per function
\* and went on with the next one.
CaughtPerFunction(exception) ==
    /\ pc' = "loop"
    /\ error' = exception

\* An exception nothing catches: the process ends with a stack trace.
Raise(exception) ==
    /\ pc' = "aborted"
    /\ error' = exception

(* ------------------------------ actions ------------------------------- *)

Init ==
    /\ \E listing \in Arrangements(Names, MaxFunctions), size \in 1..MaxPageSize :
          pages = Paginate([i \in 1..Len(listing) |-> Descriptor(listing[i])], size)
    /\ pc = "loop"
    /\ page = 1
    /\ pos = 1
    /\ lambda_function = [FunctionName |-> "", Runtime |-> <<>>]
    /\ source_code_dir = <<>>
    /\ walkDir = <<>>
    /\ walkFiles = {}
    /\ walkStack = <<>>
    /\ python_path = <<>>
    /\ python_src = <<>>
    /\ linesRead = 0
    /\ paths_with_vendored_imports = <<>>
    /\ output = <<>>
    /\ files = <<>>
    /\ dirs = {}
    /\ fetchLog = <<>>
    /\ scratch = <<>>
    /\ walked = {}
    /\ classified = {}
    /\ error = None

\* The for loop of __main__ asks get_all_functions for the next function
\* and skips it unless its runtime is a python one.
NextFunction ==
    /\ pc = "loop"
    /\ LET c == get_all_functions(page, pos)
       IN  IF c[1] > Len(pages)
           THEN /\ pc' = "done"
                /\ UNCHANGED <<page, pos, lambda_function>>
           ELSE /\ page' = c[1]
                /\ pos' = c[2] + 1
                /\ lambda_function' = pages[c[1]][c[2]]
                /\ pc' = IF IsPythonRuntime(pages[c[1]][c[2]].Runtime)
                         THEN "fetch" ELSE "loop"
    /\ UNCHANGED <<pages, source_code_dir, walkDir, walkFiles, walkStack,
                   python_path, python_src, linesRead, paths_with_vendored_imports,
                   output, files, dirs, fetchLog, scratch, walked, classified, error>>

\* get_lambda_source_code, up to the Content-Type check: the download
\* fails, or the package is not a zip archive.
FetchRefused ==
    /\ pc = "fetch"
    /\ LET resp == Describe(lambda_function.FunctionName)
       IN  /\ resp.net = "error" \/ ~IsZip(resp.ContentType)
           /\ Raise(IF resp.net = "error" THEN "URLError" ELSE "RuntimeError")
    /\ fetchLog' = Append(fetchLog, lambda_function.FunctionName)
    /\ UNCHANGED <<pages, page, pos, lambda_function, source_code_dir, walkDir,
                   walkFiles, walkStack, python_path, python_src, linesRead,
                   paths_with_vendored_imports, output, files, dirs, scratch,
                   walked, classified>>

\* get_lambda_source_code past the check: mkdtemp, then unpack_archive,
\* which fails on a file that is no zip archive; then __main__ empties its
\* list and starts the walk at the directory returned.
FetchUnpack ==
    /\ pc = "fetch"
    /\ LET resp == Describe(lambda_function.FunctionName)
           working_dir == MkdTemp(dirs)
       IN  /\ resp.net = "ok"
           /\ IsZip(resp.ContentType)
           /\ scratch' = Append(scratch, [dir |-> working_dir,
                                          fn |-> lambda_function.FunctionName])
           /\ IF resp.archive = "corrupt"
              THEN /\ dirs' = dirs \cup {working_dir}
                   /\ Raise("ReadError")
                   /\ UNCHANGED <<files, source_code_dir, walkDir, walkStack,
                                  paths_with_vendored_imports>>
              ELSE /\ dirs' = dirs \cup {working_dir}
                                \cup UnpackedDirs(resp.package, working_dir)
                   /\ files' = UnpackedFiles(resp.package, working_dir) @@ files
                   /\ source_code_dir' = working_dir
                   /\ walkDir' = working_dir
                   /\ walkStack' = << {working_dir} >>
                   /\ paths_with_vendored_imports' = <<>>
                   /\ pc' = "walk"
                   /\ UNCHANGED error
    /\ fetchLog' = Append(fetchLog, lambda_function.FunctionName)
    /\ UNCHANGED <<pages, page, pos, lambda_function, walkFiles, python_path,
                   python_src, linesRead, output, walked, classified>>

\* The stack of os.walk without its last directory set when that is empty.
Pending(stack, top) ==
    IF top = {} THEN SubSeq(stack, 1, Len(stack) - 1)
    ELSE [stack EXCEPT ![Len(stack)] = top]

\* os.walk lists the next directory: any one of the deepest pending, in
\* the order scandir happens to give.
WalkDirectory ==
    /\ pc = "walk"
    /\ walkFiles = {}
    /\ walkStack # <<>>
    /\ \E d \in walkStack[Len(walkStack)] :
          LET subdirs == { s \in dirs : DirName(s) = d }
              rest    == Pending(walkStack, walkStack[Len(walkStack)] \ {d})
          IN  /\ walkDir' = d
              /\ walkFiles' = { BaseName(p) : p \in { q \in DOMAIN files : DirName(q) = d } }
              /\ walkStack' = IF subdirs = {} THEN rest ELSE Append(rest, subdirs)
    /\ UNCHANGED <<pages, pc, page, pos, lambda_function, source_code_dir,
                   python_path, python_src, linesRead, paths_with_vendored_imports,
                   output, files, dirs, fetchLog, scratch, walked, classified, error>>

\* find_python_paths looks at the next filename of the directory; a .py
\* one is yielded to __main__, which skips it under boto3/ and botocore/
\* and otherwise opens it in contains_vendored_imports.
WalkFile ==
    /\ pc = "walk"
    /\ \E f \in walkFiles :
          /\ walkFiles' = walkFiles \ {f}
          /\ IF ~EndsWith(f, DotPy)
             THEN UNCHANGED <<pc, python_path, python_src, linesRead, walked>>
             ELSE /\ walked' = walked \cup {Join(walkDir, f)}
                  /\ IF IsExcluded(RelPath(Join(walkDir, f), source_code_dir))
                     THEN UNCHANGED <<pc, python_path, python_src, linesRead>>
                     ELSE /\ pc' = "classify"
                          /\ python_path' = Join(walkDir, f)
                          /\ python_src' = files[Join(walkDir, f)]
                          /\ linesRead' = 0
    /\ UNCHANGED <<pages, page, pos, lambda_function, source_code_dir, walkDir,
                   walkStack, paths_with_vendored_imports, output, files, dirs,
                   fetchLog, scratch, classified, error>>

\* As the loop of contains_vendored_imports would be if `return False`
\* sat inside it: the first line that does not match ends the reading.
ReadLineReturnEarly ==
    /\ pc = "classify"
    /\ linesRead' = IF python_src = <<>> THEN linesRead ELSE linesRead + 1
    /\ LET found == python_src # <<>> /\ IsVendoredImportLine(NextLine(python_src))
       IN  /\ classified' = classified \cup
                  { [path |-> python_path, lines |-> linesRead', result |-> found] }
           /\ paths_with_vendored_imports' =
                  IF found
                  THEN Append(paths_with_vendored_imports,
                              RelPath(python_path, source_code_dir))
                  ELSE paths_with_vendored_imports
    /\ pc' = "walk"
    /\ UNCHANGED <<pages, page, pos, lambda_function, source_code_dir, walkDir,
                   walkFiles, walkStack, python_path, python_src, output, files,
                   dirs, fetchLog, scratch, walked, error>>

\* One turn of the for loop of contains_vendored_imports: at the end of
\* the file it returns False; otherwise it reads a line and returns True
\* when the line matches, and __main__ then appends the relative path.
ReadLine ==
    /\ pc = "classify"
    /\ IF python_src = <<>>
       THEN /\ classified' = classified \cup
                   { [path |-> python_path, lines |-> linesRead, result |-> FALSE] }
            /\ pc' = "walk"
            /\ UNCHANGED <<python_src, linesRead, paths_with_vendored_imports>>
       ELSE LET line == NextLine(python_src)
            IN  /\ linesRead' = linesRead + 1
                /\ IF IsVendoredImportLine(line)
                   THEN /\ classified' = classified \cup
                               { [path |-> python_path, lines |-> linesRead + 1,
                                  result |-> TRUE] }
                        /\ paths_with_vendored_imports' =
                               Append(paths_with_vendored_imports,
                                      RelPath(python_path, source_code_dir))
                        /\ pc' = "walk"
                        /\ UNCHANGED python_src
                   ELSE /\ python_src' =
                               SubSeq(python_src, Len(line) + 1, Len(python_src))
                        /\ UNCHANGED <<pc, classified, paths_with_vendored_imports>>
    /\ UNCHANGED <<pages, page, pos, lambda_function, source_code_dir, walkDir,
                   walkFiles, walkStack, python_path, output, files, dirs,
                   fetchLog, scratch, walked, error>>

\* The walk is over: __main__ prints the banner of the function and its
\* findings, and goes round the loop.
Report ==
    /\ pc = "walk"
    /\ walkFiles = {}
    /\ walkStack = <<>>
    /\ output' = output \o ReportLines(lambda_function.FunctionName,
                                       paths_with_vendored_imports)
    /\ pc' = "loop"
    /\ UNCHANGED <<pages, page, pos, lambda_function, source_code_dir, walkDir,
                   walkFiles, walkStack, python_path, python_src, linesRead,
                   paths_with_vendored_imports, files, dirs, fetchLog, scratch,
                   walked, classified, error>>

Next ==
    \/ NextFunction
    \/ FetchRefused
    \/ FetchUnpack
    \/ WalkDirectory
    \/ WalkFile
    \/ ReadLine
    \/ Report

Spec == Init /\ [][Next]_vars

\* The script is one sequential process that runs until it returns or an
\* exception ends it: a step that can be taken is taken.
LiveSpec == Spec /\ WF_vars(Next)

TypeOK ==
    /\ pc \in {"loop", "fetch", "walk", "classify", "done", "aborted"}
    /\ error \in {None, "URLError", "RuntimeError", "ReadError"}
    /\ linesRead \in Nat


(* ------------------- what the claims are stated on -------------------- *)

\* The listing, pages flattened.
RECURSIVE Flatten(_)
Flatten(pp) == IF pp = <<>> THEN <<>> ELSE Head(pp) \o Flatten(Tail(pp))

Listing == Flatten(pages)

IsPythonFn(name) == Contains(Describe(name).Runtime, <<"p", "y", "t", "h", "o", "n">>)

\* The names of the python functions of the first n entries of the listing.
PythonNames(n) ==
    LET IsPy(d) == IsPythonFn(d.FunctionName)
        picked  == SelectSeq(SubSeq(Listing, 1, n), IsPy)
    IN  [i \in 1..Len(picked) |-> picked[i].FunctionName]

\* The place of a function in the listing.
ListingIndex(name) == CHOOSE i \in 1..Len(Listing) : Listing[i].FunctionName = name

\* The positions at which a line of bytes ends: each line feed, and the
\* last byte when it is none.
LineEnds(bytes) ==
    { i \in 1..Len(bytes) : bytes[i] = LF \/ i = Len(bytes) }

\* The line of bytes that ends at position e, line terminator included.
LineEndingAt(bytes, e) ==
    LET before == { i \in LineEnds(bytes) : i < e }
        start  == IF before = {} THEN 1
                  ELSE 1 + CHOOSE i \in before : \A j \in before : j <= i
    IN  SubSeq(bytes, start, e)

\* The line ends of the lines that hold one of the two byte strings.
MatchingEnds(bytes) ==
    { e \in LineEnds(bytes) :
        \/ Contains(LineEndingAt(bytes, e), PatImport)
        \/ Contains(LineEndingAt(bytes, e), PatFromImport) }

HasVendoredLine(bytes) == MatchingEnds(bytes) # {}

\* A line without its terminator.
Stripped(line) ==
    IF line # <<>> /\ line[Len(line)] = LF THEN SubSeq(line, 1, Len(line) - 1) ELSE line

HasExactLine(bytes, text) ==
    \E e \in LineEnds(bytes) : Stripped(LineEndingAt(bytes, e)) = text

\* The number of the first line that matches.
FirstMatch(bytes) ==
    LET first == CHOOSE e \in MatchingEnds(bytes) : \A x \in MatchingEnds(bytes) : e <= x
    IN  Cardinality({ e \in LineEnds(bytes) : e <= first })

UnderBoto(rel) ==
    \/ (Len(rel) >= 6 /\ SubSeq(rel, 1, 6) = <<"b", "o", "t", "o", "3", "/">>)
    \/ (Len(rel) >= 9 /\ SubSeq(rel, 1, 9) = <<"b", "o", "t", "o", "c", "o", "r", "e", "/">>)

IsPyFile(rel) ==
    Len(rel) >= 3 /\ SubSeq(rel, Len(rel) - 2, Len(rel)) = <<".", "p", "y">>

\* The findings a package ought to give: its .py members outside boto3/
\* and botocore/ with a line that holds one of the two byte strings.
Expected(name) ==
    LET package == Describe(name).package
    IN  { rel \in DOMAIN package :
            IsPyFile(rel) /\ ~UnderBoto(rel) /\ HasVendoredLine(package[rel]) }

FetchSucceeds(name) ==
    LET resp == Describe(name)
    IN  resp.net = "ok" /\ resp.ContentType = "application/zip" /\ resp.archive = "ok"

\* The scratch directory an absolute path lies in, and the path from it.
InDir(path, dir) ==
    Len(path) > Len(dir) + 1 /\ SubSeq(path, 1, Len(dir) + 1) = dir \o <<"/">>

RelTo(path, dir) == SubSeq(path, Len(dir) + 2, Len(path))

ScratchOf(name) == { scratch[i].dir : i \in { k \in 1..Len(scratch) : scratch[k].fn = name } }

IsBanner(line) == line.kind \in {"FAIL", "OK"}

BannerLines == { i \in 1..Len(output) : IsBanner(output[i]) }

BannersOf(name) == { i \in BannerLines : output[i].name = name }

\* The names on the banners printed, in order.
BannerNames ==
    LET banners == SelectSeq(output, IsBanner)
    IN  [i \in 1..Len(banners) |-> banners[i].name]

\* The finding lines printed beneath the banner at line i.
FindingsUnder(i) ==
    LET last == CHOOSE j \in i..Len(output) :
                    /\ \A k \in (i + 1)..j : output[k].kind = "item"
                    /\ (j < Len(output) => output[j + 1].kind # "item")
    IN  [k \in 1..(last - i) |-> output[i + k].path]

Range(s) == { s[i] : i \in 1..Len(s) }

\* The function whose loop body is running.
InProgress == pc \in {"walk", "classify", "aborted"}

(* ------------------------------ claims -------------------------------- *)

\* C1: contains_vendored_imports returns True exactly for the files that
\* have a line holding `import botocore.vendored` or
\* `from botocore.vendored import ` (with the space); so it returns True
\* for a file with the exact line `from botocore.vendored import requests`
\* or the exact line `import botocore.vendored`.
C1_ClassifierMatchesLines ==
    \A c \in classified :
        /\ c.result = HasVendoredLine(files[c.path])
        /\ HasExactLine(files[c.path], PatFromImport \o <<"r", "e", "q", "u", "e", "s", "t", "s">>)
              => c.result
        /\ HasExactLine(files[c.path], PatImport) => c.result

\* Both exact lines were classified, and so was a file whose only near
\* miss is `from botocore.vendored import` at the end of a line.
C1_Witness ==
    /\ \E c \in classified :
          /\ c.result
          /\ HasExactLine(files[c.path], PatFromImport \o <<"r", "e", "q", "u", "e", "s", "t", "s">>)
    /\ \E c \in classified : c.result /\ HasExactLine(files[c.path], PatImport)
    /\ \E c \in classified : ~c.result /\ files[c.path] = SrcNearMiss

\* C9: contains_vendored_imports stops at the first line that matches and
\* reads no line after it; when no line matches it has read every line of
\* the file when it returns False.
C9_StopsAtFirstMatch ==
    /\ \A c \in classified :
          c.lines = IF HasVendoredLine(files[c.path])
                    THEN FirstMatch(files[c.path])
                    ELSE Cardinality(LineEnds(files[c.path]))
    /\ pc = "classify" =>
          /\ linesRead <= Cardinality(LineEnds(files[python_path]))
          /\ HasVendoredLine(files[python_path]) => linesRead < FirstMatch(files[python_path])

\* A file was left at line 3 of 4, and another was read to its end.
C9_Witness ==
    /\ \E c \in classified :
          /\ c.result
          /\ c.lines = 3
          /\ Cardinality(LineEnds(files[c.path])) = 4
    /\ \E c \in classified :
          /\ ~c.result
          /\ c.lines = 2
          /\ Cardinality(LineEnds(files[c.path])) = 2

\* C2: a function of the listing whose runtime does not contain "python"
\* is never passed to get_lambda_source_code, gets no scratch directory
\* (so no file of it is walked or classified: every path walked or
\* classified lies in the scratch directory of a python function), and no
\* line of the output names it.
C2_NonPythonNeverFetched ==
    /\ \A i \in 1..Len(Listing) :
          ~Contains(Listing[i].Runtime, <<"p", "y", "t", "h", "o", "n">>) =>
              /\ Listing[i].FunctionName \notin Range(fetchLog)
              /\ ScratchOf(Listing[i].FunctionName) = {}
              /\ BannersOf(Listing[i].FunctionName) = {}
    /\ \A p \in walked \cup { c.path : c \in classified } :
          \E i \in 1..Len(scratch) :
              /\ InDir(p, scratch[i].dir)
              /\ IsPythonFn(scratch[i].fn)
              /\ RelTo(p, scratch[i].dir) \in DOMAIN Describe(scratch[i].fn).package
    /\ pc \in {"fetch", "walk", "classify"} =>
          Contains(lambda_function.Runtime, <<"p", "y", "t", "h", "o", "n">>)

\* The run is over, a nodejs function was listed before a python one, and
\* the python one was scanned and reported.
C2_Witness ==
    /\ pc = "done"
    /\ \E i, j \in 1..Len(Listing) :
          /\ i < j
          /\ Listing[i].Runtime = RtNode
          /\ BannersOf(Listing[j].FunctionName) # {}
          /\ \E c \in classified :
                \E d \in ScratchOf(Listing[j].FunctionName) : InDir(c.path, d)

\* C3: a file whose path from the scratch root starts with boto3/ or
\* botocore/ is never handed to contains_vendored_imports and never among
\* the findings, whatever it holds; a package whose .py files all lie
\* there is reported OK.
C3_SdkFilesExcluded ==
    /\ \A i \in 1..Len(output) : output[i].kind = "item" => ~UnderBoto(output[i].path)
    /\ \A i \in 1..Len(paths_with_vendored_imports) :
          ~UnderBoto(paths_with_vendored_imports[i])
    /\ \A c \in classified :
          \A k \in 1..Len(scratch) :
              InDir(c.path, scratch[k].dir) => ~UnderBoto(RelTo(c.path, scratch[k].dir))
    /\ pc = "classify" => ~UnderBoto(RelTo(python_path, source_code_dir))
    /\ \A i \in BannerLines :
          (\A rel \in DOMAIN Describe(output[i].name).package : IsPyFile(rel) => UnderBoto(rel))
              => output[i].kind = "OK"

\* boto3/vendored_helper.py, which holds a vendored import, was walked,
\* and its function, which has no .py file elsewhere, has its banner.
C3_Witness ==
    /\ \E p \in walked :
          /\ InDir(p, source_code_dir)
          /\ RelTo(p, source_code_dir) = P_helper
          /\ HasVendoredLine(files[p])
    /\ pc = "loop"
    /\ lambda_function.FunctionName = "sdk"
    /\ BannersOf("sdk") # {}

\* C4: the findings printed beneath a FAIL banner are in ascending
\* lexicographic order of relative path, and are the same sequence for
\* every order in which the walk yields the files: the ascending sequence
\* of the findings the package ought to give.
C4_FindingsSorted ==
    \A i \in BannerLines :
        output[i].kind = "FAIL" =>
            LET found == FindingsUnder(i)
            IN  /\ \A k \in 1..(Len(found) - 1) : StrLess(found[k], found[k + 1])
                /\ Range(found) = Expected(output[i].name)

\* The walk found z.py before boto3.py, and the report of the function
\* is printed.
C4_Witness ==
    /\ pc = "loop"
    /\ BannersOf(lambda_function.FunctionName) # {}
    /\ Len(paths_with_vendored_imports) >= 2
    /\ paths_with_vendored_imports[1] = P_z
    /\ paths_with_vendored_imports[2] = P_boto3py
    /\ \A i \in BannersOf(lambda_function.FunctionName) :
          /\ output[i].kind = "FAIL"
          /\ Len(FindingsUnder(i)) = 3

\* The functions get_lambda_source_code was called for whose download
\* came with a Content-Type other than application/zip, or with none.
FetchedNonZip ==
    { name \in Range(fetchLog) :
        Describe(name).net = "ok" /\ Describe(name).ContentType # "application/zip" }

\* What holds of a function whose package is not a zip archive, whatever
\* the exception is: the run is over at its fetch, and nothing of it was
\* unpacked, walked, classified or reported.
AbortedBeforeScanning(name) ==
    /\ pc = "aborted"
    /\ fetchLog[Len(fetchLog)] = name
    /\ ScratchOf(name) = {}
    /\ \A d \in dirs :
          \E i \in 1..Len(scratch) :
              /\ scratch[i].fn # name
              /\ d = scratch[i].dir \/ InDir(d, scratch[i].dir)
    /\ BannersOf(name) = {}
    /\ Len(scratch) = Len(fetchLog) - 1

\* C5 as claimed: when the Content-Type of the download is not
\* application/zip, get_lambda_source_code fails with
\* UnsupportedPackageFormat and the run aborts before any scanning.
C5_AsClaimed ==
    \A name \in FetchedNonZip :
        /\ error = "UnsupportedPackageFormat"
        /\ AbortedBeforeScanning(name)

\* C5 as amended: when the Content-Type of the download is not
\* application/zip (or is absent), get_lambda_source_code raises a
\* RuntimeError and the run aborts before any scanning for that function:
\* no scratch directory is made, nothing is unpacked, walked or classified
\* for it, and no banner is printed for it.
C5_NonZipRaisesRuntimeError ==
    \A name \in FetchedNonZip :
        /\ error = "RuntimeError"
        /\ AbortedBeforeScanning(name)

\* The package of a function came as application/x-tar, after another
\* function had been scanned and reported.
C5_Witness ==
    /\ fetchLog # <<>>
    /\ Describe(fetchLog[Len(fetchLog)]).ContentType = "application/x-tar"
    /\ Describe(fetchLog[Len(fetchLog)]).net = "ok"
    /\ error # None
    /\ Len(scratch) >= 1
    /\ BannerLines # {}

\* C6: once a fetch has failed the scan is over: the failing function was
\* fetched exactly once and is the last one fetched, no function after it
\* in the listing was fetched, scanned or reported, and the banners
\* printed are those of the python functions before it, in listing order.
C6_FailureHaltsScan ==
    (error # None \/ \E i \in 1..Len(fetchLog) : ~FetchSucceeds(fetchLog[i])) =>
        LET failing == fetchLog[Len(fetchLog)]
            k       == ListingIndex(failing)
        IN  /\ pc = "aborted"
            /\ error # None
            /\ ~FetchSucceeds(failing)
            /\ Cardinality({ i \in 1..Len(fetchLog) : fetchLog[i] = failing }) = 1
            /\ \A i \in 1..(Len(fetchLog) - 1) : FetchSucceeds(fetchLog[i])
            /\ fetchLog = PythonNames(k)
            /\ BannerNames = PythonNames(k - 1)
            /\ \A j \in (k + 1)..Len(Listing) :
                  /\ Listing[j].FunctionName \notin Range(fetchLog)
                  /\ ScratchOf(Listing[j].FunctionName) = {}
                  /\ BannersOf(Listing[j].FunctionName) = {}
            /\ \A p \in walked \cup { c.path : c \in classified } :
                  \E i \in 1..Len(scratch) :
                      /\ InDir(p, scratch[i].dir)
                      /\ ListingIndex(scratch[i].fn) < k

\* A fetch failed between a python function already reported and a python
\* function that comes later in the listing.
C6_Witness ==
    /\ error # None
    /\ \E i, j, k \in 1..Len(Listing) :
          /\ i < j
          /\ j < k
          /\ Listing[j].FunctionName = fetchLog[Len(fetchLog)]
          /\ BannersOf(Listing[i].FunctionName) # {}
          /\ IsPythonFn(Listing[k].FunctionName)
          /\ FetchSucceeds(Listing[k].FunctionName)

\* The functions whose loop body has run to its end.
Reported ==
    { name \in Range(fetchLog) :
        FetchSucceeds(name) /\ (InProgress => name # fetchLog[Len(fetchLog)]) }

\* C7: a python function whose fetch succeeded gets one banner: FAIL when
\* some .py file of its package outside boto3/ and botocore/ holds a
\* vendored import, followed by one line for each such file, its relative
\* path, none twice and no other file; OK, with no line beneath, when
\* there is none.
C7_BannerAndFindings ==
    /\ \A name \in Reported : Cardinality(BannersOf(name)) = 1
    /\ \A i \in BannerLines :
          LET found == FindingsUnder(i)
              name  == output[i].name
          IN  /\ name \in Reported
              /\ (output[i].kind = "FAIL") = (Expected(name) # {})
              /\ Range(found) = Expected(name)
              /\ Len(found) = Cardinality(Expected(name))
    /\ output # <<>> => IsBanner(output[1])

\* A package of a clean app.py and a handler.py with the from-import on
\* line 3 was reported FAIL with the one finding handler.py, and a package
\* without findings was reported OK.
C7_Witness ==
    /\ \E i \in BannersOf("app") :
          /\ output[i].kind = "FAIL"
          /\ FindingsUnder(i) = <<P_handler>>
    /\ \E i \in BannersOf("sdk") :
          /\ output[i].kind = "OK"
          /\ FindingsUnder(i) = <<>>

\* The banners of the functions done so far are those of the python
\* functions fetched, in listing order, the one in progress excepted: the
\* lines of a function are all printed before the next one is fetched.
OneFunctionAtATime ==
    /\ BannerNames = IF InProgress
                     THEN SubSeq(fetchLog, 1, Len(fetchLog) - 1)
                     ELSE fetchLog
    /\ \E n \in 0..Len(Listing) : fetchLog = PythonNames(n)
    /\ pc = "fetch" =>
          \E n \in 1..Len(Listing) :
              /\ fetchLog = PythonNames(n - 1)
              /\ Listing[n] = lambda_function

\* C8: a run in which no fetch fails ends, and its output then holds one
\* banner for each python function of the listing, in the order of the
\* pages flattened, each function's lines printed before the next function
\* is fetched; with no function at all there is no output.
C8_RunEndsWithOneBannerEach ==
    /\ [](OneFunctionAtATime)
    /\ [](pc = "done" =>
            /\ error = None
            /\ BannerNames = PythonNames(Len(Listing))
            /\ (Listing = <<>> => output = <<>>))
    /\ <>(pc = "done" \/ error # None)

\* The run is over without a failure, the listing came in two pages with
\* a python function in each, and a function that is not python among
\* them.
C8_Witness ==
    /\ pc = "done"
    /\ Len(pages) >= 2
    /\ \E i \in 1..Len(pages[1]) : IsPythonFn(pages[1][i].FunctionName)
    /\ \E i \in 1..Len(pages[2]) : IsPythonFn(pages[2][i].FunctionName)
    /\ \E i \in 1..Len(Listing) : ~IsPythonFn(Listing[i].FunctionName)
    /\ Len(BannerNames) = 2

\* C10: every successful fetch makes a scratch directory of its own: the
\* directories are pairwise distinct, one for each function, none is ever
\* removed, each holds the package of its function and nothing else, the
\* walk of a function stays in its own directory, and after n functions
\* were scanned there are n of them.
C10_ScratchDirPerFetch ==
    /\ \A i, j \in 1..Len(scratch) :
          i # j => /\ scratch[i].dir # scratch[j].dir
                   /\ scratch[i].fn # scratch[j].fn
                   /\ ~InDir(scratch[i].dir, scratch[j].dir)
    /\ \A i \in 1..Len(scratch) :
          /\ scratch[i].dir \in dirs
          /\ scratch[i].fn \in Range(fetchLog)
          /\ FetchSucceeds(scratch[i].fn) =>
                { RelTo(p, scratch[i].dir) : p \in { q \in DOMAIN files : InDir(q, scratch[i].dir) } }
                    = DOMAIN Describe(scratch[i].fn).package
    /\ \A p \in DOMAIN files :
          \E i \in 1..Len(scratch) :
              /\ InDir(p, scratch[i].dir)
              /\ files[p] = Describe(scratch[i].fn).package[RelTo(p, scratch[i].dir)]
    /\ \A name \in Range(fetchLog) : FetchSucceeds(name) => Cardinality(ScratchOf(name)) = 1
    /\ pc \in {"walk", "classify"} =>
          /\ ScratchOf(lambda_function.FunctionName) = {source_code_dir}
          /\ walkDir = source_code_dir \/ InDir(walkDir, source_code_dir)
          /\ pc = "classify" => InDir(python_path, source_code_dir)
    /\ \A i \in BannerLines :
          \A k \in 1..Len(FindingsUnder(i)) :
              \A d \in ScratchOf(output[i].name) :
                  Join(d, FindingsUnder(i)[k]) \in walked
    /\ pc \in {"loop", "fetch", "done"} =>
          Cardinality({ scratch[i].dir : i \in 1..Len(scratch) } \cap dirs)
              = Len(BannerNames)

\* Three python functions were scanned and three scratch directories
\* exist.
C10_Witness ==
    /\ pc = "done"
    /\ Len(BannerNames) = 3
    /\ Cardinality({ scratch[i].dir : i \in 1..Len(scratch) } \cap dirs) = 3

=============================================================================
